---- MODULE Spec2Model ----
(***************************************************************************)
(* Model of the chunked media upload and finalize pipeline of              *)
(* show_add_content_page (src/app.py), the handler run when the "Share     *)
(* Festival Story" form is submitted.  One run of the handler is one       *)
(* submission; the transport (api_client.upload_file_chunk and             *)
(* api_client.finalize_record_upload) answers each call with a truthy or a *)
(* falsy result, chosen nondeterministically.  The recent stories of       *)
(* show_dashboard and the session handling of main, show_login_page,       *)
(* show_signup_page and show_main_app are modelled in the same way.        *)
(***************************************************************************)
EXTENDS Integers, Sequences, FiniteSets, TLC

VARIABLES
    pc,                  \* position of the handler
    submissions,         \* number of form submissions handled so far
    uploaded_files,      \* the files of st.file_uploader, in selection order
    latitude, longitude, \* the locals set (or left unbound) at lines 478-495
    fileIdx,             \* cursor of "for uploaded_file in uploaded_files"
    file_size, total_chunks, file_upload_uuid, i,
    current_file_upload_successful,
    uploaded_files_info, uploaded_files_count,
    finIdx,              \* cursor of "for file_info in uploaded_files_info"
    calls,               \* transport calls of this submission, in call order
    messages,            \* st.warning / st.error / st.success of this submission
    nextUuid,            \* number of uuid.uuid4() values drawn so far
    issued,              \* every identifier drawn, with submission and file
    form,                \* the fields of the form as submitted
    dpc,                 \* position of show_dashboard
    mtIdx,               \* cursor of "for media_type in media_types"
    fetches,             \* get_user_contributions_by_media calls, with responses
    all_recent_contributions,
    session_state,       \* st.session_state: the keys of lines 76-82 and 165-176
    apc,                 \* position of show_login_page between its two calls
    last_run             \* the last run of a session handler: the handler, the
                         \* message it showed and st.session_state before it

vars == <<pc, submissions, uploaded_files, latitude, longitude, fileIdx,
          file_size, total_chunks, file_upload_uuid, i,
          current_file_upload_successful, uploaded_files_info,
          uploaded_files_count, finIdx, calls, messages, nextUuid, issued,
          form, dpc, mtIdx, fetches, all_recent_contributions,
          session_state, apc, last_run>>

\* the state of the session handlers
authVars == <<session_state, apc, last_run>>

\* the state of show_dashboard
dashVars == <<dpc, mtIdx, fetches, all_recent_contributions>>

\* the state of show_add_content_page
pageVars == <<pc, submissions, uploaded_files, latitude, longitude, fileIdx,
              file_size, total_chunks, file_upload_uuid, i,
              current_file_upload_successful, uploaded_files_info,
              uploaded_files_count, finIdx, calls, messages, nextUuid, issued,
              form>>

----------------------------------------------------------------------------
(* Bounds of the model *)

MaxFiles == 2

MaxSubmissions == 2

MaxSplitChunks == 3

OrderFiles == 3

MaxPerFetch == 1

----------------------------------------------------------------------------
(* Constants and input domains *)

chunk_size == 1024 * 1024

Min(a, b) == IF a <= b THEN a ELSE b

\* file sizes around every multiple of chunk_size, for the splitter
SplitSizes ==
    {0, 1} \cup UNION {{k * chunk_size - 1, k * chunk_size, k * chunk_size + 1} :
                          k \in 1..MaxSplitChunks}

\* (name, declared MIME type) of a selectable file
FileKinds == {[name |-> "a.png", type |-> "image/png"],
              [name |-> "b.mp3", type |-> "audio/mpeg"]}

\* the files a submission selects from: of 0, 1, 1 and 3 chunks
SelectableFiles ==
    {[name |-> "a.png", type |-> "image/png", size |-> 0],
     [name |-> "a.png", type |-> "image/png", size |-> chunk_size],
     [name |-> "b.mp3", type |-> "audio/mpeg", size |-> chunk_size],
     [name |-> "b.mp3", type |-> "audio/mpeg", size |-> 2 * chunk_size + 1]}

\* the files the splitter is run on
SplitFiles ==
    {[name |-> k.name, type |-> k.type, size |-> sz] : k \in FileKinds, sz \in SplitSizes}

SeqsUpTo(S, n) == UNION {[1..m -> S] : m \in 0..n}

\* text typed in the Latitude / Longitude inputs
CoordTexts == {"", "17.3850", "abc"}

Titles == {"", "Ugadi"}

\* len(description), len(content_text)
TextLens == {0, 31, 32}

language_options == {"-- Select a language --", "Telugu", "English", "Hindi", "Other"}

UserIds == {"None", "u1"}

\* every way of filling the required fields
AllForms == [title : Titles, description_len : TextLens, content_len : TextLens,
             language : language_options, user_id : UserIds]

\* a form that passes validation, and the form as rendered (line 440,
\* clear_on_submit)
ValidForm == [title |-> "Ugadi", description_len |-> 32, content_len |-> 32,
              language |-> "Telugu", user_id |-> "u1"]

EmptyForm == [title |-> "", description_len |-> 0, content_len |-> 0,
              language |-> "-- Select a language --", user_id |-> "u1"]

NumberOfDifferences(f, g) ==
    Cardinality({k \in DOMAIN f : f[k] # g[k]})

\* the forms of the pipeline runs: the valid form and the forms with one
\* field of it changed, the language being Telugu or not selected
Forms ==
    {f \in AllForms : /\ NumberOfDifferences(f, ValidForm) <= 1
                      /\ f.language \in {"Telugu", "-- Select a language --"}}

\* st.session_state after init_session_state (lines 76-82) and after the
\* initialisation of show_signup_page (lines 165-176)
FreshSession ==
    [authenticated |-> FALSE, user_data |-> "None", access_token |-> "None",
     signup_step |-> 1, signup_phone_number |-> "", signup_name |-> "",
     signup_email |-> "", signup_password |-> "", signup_consent |-> FALSE]

\* st.session_state of a user who has logged in (lines 149-156); the pages
\* of show_main_app run only in such a session (lines 110-116)
LoggedInSession ==
    [FreshSession EXCEPT !.authenticated = TRUE, !.user_data = "profile_a",
                         !.access_token = "t1"]

\* no session handler has run yet
NoRun(session) == [handler |-> "none", message |-> "", before |-> session]

----------------------------------------------------------------------------
(* Pure helpers of the handler *)

\* total_chunks = (file_size + chunk_size - 1) // chunk_size
TotalChunks(size) == (size + chunk_size - 1) \div chunk_size

\* file_bytes[i * chunk_size:(i + 1) * chunk_size] as the byte range [lo, hi)
ChunkSliceOverlap(size, k) ==
    [lo |-> Min(k * chunk_size, size), hi |-> Min((k + 1) * chunk_size + 1, size)]

ChunkSlice(size, k) ==
    [lo |-> Min(k * chunk_size, size), hi |-> Min((k + 1) * chunk_size, size)]

\* float(text) of lines 480-486 / 489-495: the local stays unbound when the
\* text is not a number
ParseCoord(text) ==
    IF text = "" THEN "None"
    ELSE IF text = "abc" THEN "unbound"
    ELSE "float"

\* keywords among audio, video, image, pdf that occur in a MIME string
\* (the operands of "in" at lines 610-614)
Keywords(mime) ==
    CASE mime = "image/png" -> {"image"}
      [] mime = "image/jpeg" -> {"image"}
      [] mime = "audio/mpeg" -> {"audio"}
      [] mime = "audio/wav" -> {"audio"}
      [] mime = "video/mp4" -> {"video"}
      [] mime = "video/quicktime" -> {"video"}
      [] mime = "application/pdf" -> {"pdf"}
      [] mime = "audio/x-video-soundtrack" -> {"audio", "video"}
      [] mime = "video/x-image-sequence" -> {"video", "image"}
      [] mime = "video/x-pdf-slides" -> {"video", "pdf"}
      [] mime = "image/x-audio-waveform" -> {"image", "audio"}
      [] mime = "application/pdf+audio" -> {"pdf", "audio"}
      [] OTHER -> {}

\* the values of uploaded_file.type of the media-type runs; "None" is a
\* missing type
DeclaredTypes ==
    {"None", "", "text/plain", "application/octet-stream",
     "image/png", "image/jpeg", "audio/mpeg", "audio/wav", "video/mp4",
     "video/quicktime", "application/pdf", "audio/x-video-soundtrack",
     "video/x-image-sequence", "video/x-pdf-slides", "image/x-audio-waveform",
     "application/pdf+audio"}

\* the files the media type is derived for
MediaFiles ==
    {[name |-> "story.bin", type |-> t, size |-> sz] :
        t \in DeclaredTypes, sz \in {0, chunk_size}}

\* lines 609-617
MediaTypeVideoFirst(type) ==
    LET media_type_full == IF type \in {"None", ""} THEN "application/octet-stream"
                           ELSE type
    IN  IF "video" \in Keywords(media_type_full) THEN "video"
        ELSE IF "audio" \in Keywords(media_type_full) THEN "audio"
        ELSE IF "image" \in Keywords(media_type_full)
                \/ "pdf" \in Keywords(media_type_full) THEN "image"
        ELSE "text"

MediaType(type) ==
    LET media_type_full == IF type \in {"None", ""} THEN "application/octet-stream"
                           ELSE type
    IN  IF "audio" \in Keywords(media_type_full) THEN "audio"
        ELSE IF "video" \in Keywords(media_type_full) THEN "video"
        ELSE IF "image" \in Keywords(media_type_full)
                \/ "pdf" \in Keywords(media_type_full) THEN "image"
        ELSE "text"

\* uuid.uuid4(): a value never drawn before
SharedUuid(drawn) == 1000 + submissions

FreshUuid(drawn) == drawn + 1

\* "if not chunk_result: ... break"
NeverAborts(chunk_result) == FALSE

Aborts(chunk_result) == ~chunk_result

\* the dict appended at lines 594-600
FileInfoChunksOffByOne(file, uuid, total) ==
    [name |-> file.name, type |-> file.type, size |-> file.size,
     uuid |-> uuid, total_chunks |-> total + 1]

FileInfo(file, uuid, total) ==
    [name |-> file.name, type |-> file.type, size |-> file.size,
     uuid |-> uuid, total_chunks |-> total]

\* lines 593-603: what the end of a file's chunk loop does to the list
InfoAfterFileAlways(successful, info, entry) == Append(info, entry)

InfoAfterFilePrepend(successful, info, entry) ==
    IF successful THEN <<entry>> \o info ELSE info

InfoAfterFile(successful, info, entry) ==
    IF successful THEN Append(info, entry) ELSE info

CountAfterFile(successful, count) ==
    IF successful THEN count + 1 ELSE count

\* lines 634-636
CountAfterFinalize(finalize_result, count) ==
    IF ~finalize_result THEN count - 1 ELSE count

Msg(level, text, filename, n) ==
    [level |-> level, text |-> text, filename |-> filename, n |-> n]

\* the arguments of upload_file_chunk (lines 580-586) and its result; pos is
\* the position of the file in the selection, lo and hi the byte range of
\* chunk_data
ChunkCallOneIndexed(pos, file, k, total, uuid, result) ==
    [op |-> "upload_file_chunk", pos |-> pos, filename |-> file.name,
     chunk_index |-> k + 1, total_chunks |-> total, upload_uuid |-> uuid,
     lo |-> ChunkSlice(file.size, k).lo, hi |-> ChunkSlice(file.size, k).hi,
     media_type |-> "", result |-> result]

ChunkCallRecord(pos, file, k, total, uuid, result) ==
    [op |-> "upload_file_chunk", pos |-> pos, filename |-> file.name,
     chunk_index |-> k, total_chunks |-> total, upload_uuid |-> uuid,
     lo |-> ChunkSlice(file.size, k).lo, hi |-> ChunkSlice(file.size, k).hi,
     media_type |-> "", result |-> result]

\* the arguments of finalize_record_upload that vary per file (lines 619-633)
\* and its result
FinalizeCallRecord(file_info, result) ==
    [op |-> "finalize_record_upload", pos |-> 0, filename |-> file_info.name,
     chunk_index |-> -1, total_chunks |-> file_info.total_chunks,
     upload_uuid |-> file_info.uuid, lo |-> 0, hi |-> 0,
     media_type |-> MediaType(file_info.type), result |-> result]

\* line 578, for i in range(total_chunks): the index after index k
SameChunkIndex(k) == k

NextChunkIndex(k) == k + 1

----------------------------------------------------------------------------
(* The handler *)

\* positions at which a run of the handler has ended
Ended == {"done", "crashed", "rejected", "stopped"}

NoMediaMsg == Msg("error", "no_media_or_all_uploads_failed", "", 0)

\* locals of one run of the handler, before the file loop
LocalsKeepCount ==
    /\ fileIdx' = 1
    /\ file_size' = 0
    /\ total_chunks' = 0
    /\ file_upload_uuid' = 0
    /\ i' = 0
    /\ current_file_upload_successful' = TRUE
    /\ uploaded_files_info' = <<>>
    /\ UNCHANGED uploaded_files_count
    /\ finIdx' = 1
    /\ calls' = <<>>

FreshLocals ==
    /\ fileIdx' = 1
    /\ file_size' = 0
    /\ total_chunks' = 0
    /\ file_upload_uuid' = 0
    /\ i' = 0
    /\ current_file_upload_successful' = TRUE
    /\ uploaded_files_info' = <<>>
    /\ uploaded_files_count' = 0
    /\ finIdx' = 1
    /\ calls' = <<>>

\* lines 536-562: the message of the validation branch taken, "" when the
\* submission passes ("stop" is st.stop() at line 548)
ValidateNoMinimumLength(title, description_len, content_len, language, user_id) ==
    IF title = "" \/ description_len = 0 \/ content_len = 0 THEN "fill_required_fields"
    ELSE IF language = "-- Select a language --" THEN "select_valid_language"
    ELSE IF user_id = "None" THEN "stop"
    ELSE ""

Validate(title, description_len, content_len, language, user_id) ==
    IF title = "" \/ description_len = 0 \/ content_len = 0 THEN "fill_required_fields"
    ELSE IF language = "-- Select a language --" THEN "select_valid_language"
    ELSE IF description_len < 32 THEN "description_too_short"
    ELSE IF content_len < 32 THEN "story_too_short"
    ELSE IF user_id = "None" THEN "stop"
    ELSE ""

\* lines 436-520: the script is run again and renders an empty form; the
\* locals of the run before are gone
Render ==
    /\ pc \in Ended
    /\ submissions < MaxSubmissions
    /\ pc' = "form"
    /\ uploaded_files' = <<>>
    /\ latitude' = "None"
    /\ longitude' = "None"
    /\ messages' = <<>>
    /\ form' = EmptyForm
    /\ FreshLocals
    /\ UNCHANGED <<submissions, nextUuid, issued>>
    /\ UNCHANGED dashVars
    /\ UNCHANGED authVars

\* lines 478-495 and 522-566: the form is submitted, filled as one of
\* forms with a selection among selections
SubmitFrom(forms, selections) ==
    /\ pc = "form"
    /\ submissions < MaxSubmissions
    /\ \E files \in selections, submitted \in forms,
          latitude_str \in CoordTexts, longitude_str \in CoordTexts :
          LET verdict == Validate(submitted.title, submitted.description_len,
                                  submitted.content_len, submitted.language,
                                  submitted.user_id)
          IN  /\ submissions' = submissions + 1
              /\ form' = submitted
              /\ UNCHANGED dashVars
              /\ UNCHANGED authVars
              /\ uploaded_files' = files
              /\ latitude' = ParseCoord(latitude_str)
              /\ longitude' = ParseCoord(longitude_str)
              /\ FreshLocals
              /\ UNCHANGED <<nextUuid, issued>>
              /\ IF verdict = "stop"
                 THEN /\ pc' = "stopped"
                      /\ messages' = <<Msg("error", "user_id_not_found", "", 0)>>
                 ELSE IF verdict # ""
                 THEN /\ pc' = "rejected"
                      /\ messages' = <<Msg("error", verdict, "", 0)>>
                 ELSE IF files # <<>>
                 THEN /\ pc' = "begin_file"
                      /\ messages' = <<>>
                 ELSE /\ pc' = "done"
                      /\ messages' = <<NoMediaMsg>>

Submit == SubmitFrom(Forms, SeqsUpTo(SelectableFiles, MaxFiles))

\* lines 567 and 606-607: where the handler goes after a file's chunk loop:
\* to the next file, else to the finalize loop if a file uploaded, else to
\* the end
PcAfterFileEager(last, info) ==
    IF info # <<>> THEN "finalize"
    ELSE IF ~last THEN "begin_file" ELSE "done"

PcAfterFile(last, info) ==
    IF ~last THEN "begin_file"
    ELSE IF info # <<>> THEN "finalize" ELSE "done"

\* lines 593-607: the end of one file's chunk loop, and the step to the next
\* file or to the finalize loop
FinishFile(successful, file, uuid, total, msgs) ==
    LET info == InfoAfterFile(successful, uploaded_files_info, FileInfo(file, uuid, total))
        msgs2 == IF successful THEN msgs
                 ELSE Append(msgs, Msg("error", "file_upload_failed", file.name, 0))
        last == fileIdx >= Len(uploaded_files)
    IN  /\ uploaded_files_info' = info
        /\ uploaded_files_count' = CountAfterFile(successful, uploaded_files_count)
        /\ fileIdx' = fileIdx + 1
        /\ finIdx' = 1
        /\ pc' = PcAfterFile(last, info)
        /\ messages' = IF last /\ info = <<>> THEN Append(msgs2, NoMediaMsg) ELSE msgs2

\* lines 567-578: a file is read, its chunk count computed and its identifier
\* drawn; a file of no chunks leaves the chunk loop at once
BeginFile ==
    /\ pc = "begin_file"
    /\ LET file == uploaded_files[fileIdx]
           total == TotalChunks(file.size)
           uuid == FreshUuid(nextUuid)
       IN  /\ file_size' = file.size
           /\ total_chunks' = total
           /\ file_upload_uuid' = uuid
           /\ nextUuid' = nextUuid + 1
           /\ issued' = Append(issued, [sub |-> submissions, file |-> fileIdx, uuid |-> uuid])
           /\ current_file_upload_successful' = TRUE
           /\ i' = 0
           /\ IF total <= 0
              THEN FinishFile(TRUE, file, uuid, total, messages)
              ELSE /\ pc' = "chunk"
                   /\ UNCHANGED <<fileIdx, uploaded_files_info, uploaded_files_count,
                                  finIdx, messages>>
    /\ UNCHANGED <<submissions, uploaded_files, latitude, longitude, calls, form>>
    /\ UNCHANGED dashVars
    /\ UNCHANGED authVars

\* lines 578-603: one upload_file_chunk call and what follows it up to the
\* next transport call
UploadChunk ==
    /\ pc = "chunk"
    /\ \E chunk_result \in BOOLEAN :
          LET file == uploaded_files[fileIdx]
          IN  /\ calls' = Append(calls, ChunkCallRecord(fileIdx, file, i, total_chunks,
                                                        file_upload_uuid, chunk_result))
              /\ IF Aborts(chunk_result)
                 THEN /\ current_file_upload_successful' = FALSE
                      /\ i' = i
                      /\ FinishFile(FALSE, file, file_upload_uuid, total_chunks,
                                    Append(messages,
                                           Msg("warning", "chunk_failed", file.name, i + 1)))
                 ELSE IF NextChunkIndex(i) < total_chunks
                 THEN /\ i' = NextChunkIndex(i)
                      /\ UNCHANGED <<pc, current_file_upload_successful, fileIdx,
                                     uploaded_files_info, uploaded_files_count,
                                     finIdx, messages>>
                 ELSE /\ i' = i
                      /\ UNCHANGED current_file_upload_successful
                      /\ FinishFile(current_file_upload_successful, file,
                                    file_upload_uuid, total_chunks, messages)
    /\ UNCHANGED <<submissions, uploaded_files, latitude, longitude, file_size,
                   total_chunks, file_upload_uuid, nextUuid, issued, form>>
    /\ UNCHANGED dashVars
    /\ UNCHANGED authVars

\* lines 607-656: one finalize_record_upload call and what follows it
Finalize ==
    /\ pc = "finalize"
    /\ latitude # "unbound"
    /\ longitude # "unbound"
    /\ \E finalize_result \in BOOLEAN :
          LET file_info == uploaded_files_info[finIdx]
              count == CountAfterFinalize(finalize_result, uploaded_files_count)
              msgs == IF finalize_result THEN messages
                      ELSE Append(messages,
                                  Msg("warning", "finalize_failed", file_info.name, 0))
          IN  /\ calls' = Append(calls, FinalizeCallRecord(file_info, finalize_result))
              /\ uploaded_files_count' = count
              /\ finIdx' = finIdx + 1
              /\ IF finIdx < Len(uploaded_files_info)
                 THEN /\ pc' = "finalize"
                      /\ messages' = msgs
                 ELSE /\ pc' = "done"
                      /\ messages' =
                            IF count > 0
                            THEN Append(msgs, Msg("success", "files_uploaded", "", count))
                            ELSE Append(msgs, Msg("error", "failed_to_upload_story", "", 0))
    /\ UNCHANGED <<submissions, uploaded_files, latitude, longitude, fileIdx, file_size,
                   total_chunks, file_upload_uuid, i, current_file_upload_successful,
                   uploaded_files_info, nextUuid, issued, form>>
    /\ UNCHANGED dashVars
    /\ UNCHANGED authVars

\* lines 619-633 with latitude or longitude unbound: evaluating the argument
\* raises before finalize_record_upload is called, and the run ends there
FinalizeRaises ==
    /\ pc = "finalize"
    /\ latitude = "unbound" \/ longitude = "unbound"
    /\ pc' = "crashed"
    /\ messages' = Append(messages, Msg("exception", "UnboundLocalError", "", 0))
    /\ UNCHANGED <<submissions, uploaded_files, latitude, longitude, fileIdx, file_size,
                   total_chunks, file_upload_uuid, i, current_file_upload_successful,
                   uploaded_files_info, uploaded_files_count, finIdx, calls,
                   nextUuid, issued, form>>
    /\ UNCHANGED dashVars
    /\ UNCHANGED authVars

\* show_dashboard has not run
DashboardNotShown ==
    /\ dpc = "idle"
    /\ mtIdx = 1
    /\ fetches = <<>>
    /\ all_recent_contributions = <<>>

\* a user has logged in and no session handler has run since
SessionLoggedIn ==
    /\ session_state = LoggedInSession
    /\ apc = "idle"
    /\ last_run = NoRun(LoggedInSession)

\* the form as rendered, before any submission
PageAtForm ==
    /\ pc = "form"
    /\ submissions = 0
    /\ uploaded_files = <<>>
    /\ latitude = "None"
    /\ longitude = "None"
    /\ fileIdx = 1
    /\ file_size = 0
    /\ total_chunks = 0
    /\ file_upload_uuid = 0
    /\ i = 0
    /\ current_file_upload_successful = TRUE
    /\ uploaded_files_info = <<>>
    /\ uploaded_files_count = 0
    /\ finIdx = 1
    /\ calls = <<>>
    /\ messages = <<>>
    /\ nextUuid = 0
    /\ issued = <<>>
    /\ form = EmptyForm

Init ==
    /\ PageAtForm
    /\ DashboardNotShown
    /\ SessionLoggedIn

Next ==
    \/ Render
    \/ Submit
    \/ BeginFile
    \/ UploadChunk
    \/ Finalize
    \/ FinalizeRaises

Spec == Init /\ [][Next]_vars

----------------------------------------------------------------------------
(* The splitter on one file of any size of SplitSizes: a submission of that *)
(* one file that passed validation with both coordinates left empty         *)

SplitInit ==
    /\ pc = "begin_file"
    /\ submissions = 1
    /\ uploaded_files \in {<<f>> : f \in SplitFiles}
    /\ latitude = "None"
    /\ longitude = "None"
    /\ fileIdx = 1
    /\ file_size = 0
    /\ total_chunks = 0
    /\ file_upload_uuid = 0
    /\ i = 0
    /\ current_file_upload_successful = TRUE
    /\ uploaded_files_info = <<>>
    /\ uploaded_files_count = 0
    /\ finIdx = 1
    /\ calls = <<>>
    /\ messages = <<>>
    /\ nextUuid = 0
    /\ issued = <<>>
    /\ form = ValidForm
    /\ DashboardNotShown
    /\ SessionLoggedIn

SplitNext ==
    \/ BeginFile
    \/ UploadChunk
    \/ Finalize

SplitSpec == SplitInit /\ [][SplitNext]_vars

----------------------------------------------------------------------------
(* A submission that passed validation, at the start of its file loop, for  *)
(* the selections and coordinate texts given                                *)

BatchOf(selections, texts) ==
    /\ pc = "begin_file"
    /\ submissions = 1
    /\ uploaded_files \in selections
    /\ latitude \in {ParseCoord(t) : t \in texts}
    /\ longitude \in {ParseCoord(t) : t \in texts}
    /\ fileIdx = 1
    /\ file_size = 0
    /\ total_chunks = 0
    /\ file_upload_uuid = 0
    /\ i = 0
    /\ current_file_upload_successful = TRUE
    /\ uploaded_files_info = <<>>
    /\ uploaded_files_count = 0
    /\ finIdx = 1
    /\ calls = <<>>
    /\ messages = <<>>
    /\ nextUuid = 0
    /\ issued = <<>>
    /\ form = ValidForm
    /\ DashboardNotShown
    /\ SessionLoggedIn

(* The media type of one file of every declared type *)

MediaInit == BatchOf({<<f>> : f \in MediaFiles}, {""})

MediaNext ==
    \/ BeginFile
    \/ UploadChunk
    \/ Finalize

MediaSpec == MediaInit /\ [][MediaNext]_vars

(* Validation: every way of filling the form, with no file or one file *)

ValidationSelections ==
    SeqsUpTo({[name |-> "a.png", type |-> "image/png", size |-> chunk_size]}, 1)

SubmitAnyForm == SubmitFrom(AllForms, ValidationSelections)

ValidationNext ==
    \/ Render
    \/ SubmitAnyForm
    \/ BeginFile
    \/ UploadChunk
    \/ Finalize
    \/ FinalizeRaises

ValidationSpec == Init /\ [][ValidationNext]_vars

(* The order of the files: selections of OrderFiles one-chunk files *)

OrderSelectable ==
    {[name |-> "a.png", type |-> "image/png", size |-> chunk_size],
     [name |-> "b.mp3", type |-> "audio/mpeg", size |-> chunk_size]}

OrderInit == BatchOf([1..OrderFiles -> OrderSelectable], {"", "abc"})

OrderNext ==
    \/ BeginFile
    \/ UploadChunk
    \/ Finalize
    \/ FinalizeRaises

OrderSpec == OrderInit /\ [][OrderNext]_vars

----------------------------------------------------------------------------
(* The recent stories of the dashboard, lines 396-433 of show_dashboard *)

\* line 403
media_types_audio_first == <<"audio", "text", "image", "video">>

media_types == <<"text", "audio", "image", "video">>

\* the timestamps a contribution can carry: none, two with a Z suffix and one
\* without an offset
Timestamps == {"None", "2024-01-01T00:00:00Z", "2024-06-01T00:00:00Z",
               "2024-03-01T00:00:00"}

\* the contributions lists of at most MaxPerFetch entries that a response
\* for media_type can carry; n is the position in the response
ContributionLists(media_type) ==
    UNION {{[n \in 1..len |-> [media_type |-> media_type, n |-> n,
                               timestamp |-> ts[n]]] :
               ts \in [1..len -> Timestamps]} : len \in 0..MaxPerFetch}

\* what get_user_contributions_by_media can return: None, or a dict with a
\* contributions list
Responses(media_type) ==
    {[kind |-> "None", contributions |-> <<>>]}
        \cup {[kind |-> "dict", contributions |-> list] :
                  list \in ContributionLists(media_type)}

\* lines 406-407: the list after one response
Extended(list, response) ==
    IF response.kind # "None" /\ response.contributions # <<>>
    THEN list \o response.contributions
    ELSE list

\* line 411, the key of one entry: datetime.fromisoformat of the timestamp
\* with Z replaced by +00:00, which carries an offset only if the text has
\* one, and datetime.min, which carries none, for a missing timestamp; t is
\* the date as a number
SortKey(x) ==
    IF x.timestamp = "None" THEN [t |-> 10101, aware |-> FALSE]
    ELSE IF x.timestamp = "2024-01-01T00:00:00Z" THEN [t |-> 20240101, aware |-> TRUE]
    ELSE IF x.timestamp = "2024-06-01T00:00:00Z" THEN [t |-> 20240601, aware |-> TRUE]
    ELSE [t |-> 20240301, aware |-> FALSE]

\* line 411: comparing a datetime with an offset to one without raises
\* TypeError, and sorting a list that holds both kinds of key compares such
\* a pair
SortRaises(list) ==
    \E a \in DOMAIN list : \E b \in DOMAIN list :
        SortKey(list[a]).aware /\ ~SortKey(list[b]).aware

\* list.sort(key=..., reverse=True) is stable: an entry goes behind the
\* entries before it that have a key at least as large
InsertDescending(sorted, x) ==
    LET n == Cardinality({p \in DOMAIN sorted : SortKey(sorted[p]).t >= SortKey(x).t})
    IN  SubSeq(sorted, 1, n) \o <<x>> \o SubSeq(sorted, n + 1, Len(sorted))

RECURSIVE SortedDescending(_)
SortedDescending(list) ==
    IF list = <<>> THEN <<>>
    ELSE InsertDescending(SortedDescending(SubSeq(list, 1, Len(list) - 1)),
                          list[Len(list)])

\* lines 399-403: the section starts; without a user id it shows the login
\* hint and fetches nothing
DashStart ==
    /\ dpc = "idle"
    /\ \E user_id \in UserIds :
          dpc' = IF user_id = "None" THEN "login_hint" ELSE "fetch"
    /\ mtIdx' = 1
    /\ fetches' = <<>>
    /\ all_recent_contributions' = <<>>
    /\ UNCHANGED pageVars
    /\ UNCHANGED authVars

\* lines 404-431: one get_user_contributions_by_media call and what follows
\* it up to the next call; after the last call the list is sorted and shown.
\* When the sort raises, the list is not read again.
Fetch ==
    /\ dpc = "fetch"
    /\ \E response \in Responses(media_types[mtIdx]) :
          LET list == Extended(all_recent_contributions, response)
          IN  /\ fetches' = Append(fetches, [media_type |-> media_types[mtIdx],
                                             response |-> response])
              /\ mtIdx' = mtIdx + 1
              /\ IF mtIdx < Len(media_types)
                 THEN /\ dpc' = "fetch"
                      /\ all_recent_contributions' = list
                 ELSE IF list = <<>>
                 THEN /\ dpc' = "no_stories"
                      /\ all_recent_contributions' = list
                 ELSE IF SortRaises(list)
                 THEN /\ dpc' = "crashed"
                      /\ all_recent_contributions' = list
                 ELSE /\ dpc' = "shown"
                      /\ all_recent_contributions' = SortedDescending(list)
    /\ UNCHANGED pageVars
    /\ UNCHANGED authVars

DashNext ==
    \/ DashStart
    \/ Fetch

DashSpec == Init /\ [][DashNext]_vars

----------------------------------------------------------------------------
(* The session: main (lines 84-116), show_login_page, show_signup_page and  *)
(* the logout button of show_main_app                                       *)

\* the tokens login_for_access_token can issue and the profiles
\* read_users_me can return; "None" is a falsy answer
Tokens == {"t1", "t2"}

Profiles == {"profile_a", "profile_b"}

\* what login_for_access_token can return: None, a dict without the key
\* access_token, or a dict with a token
LoginResults ==
    {[kind |-> "None", access_token |-> "absent"],
     [kind |-> "dict", access_token |-> "absent"]}
        \cup {[kind |-> "dict", access_token |-> t] : t \in Tokens}

\* the texts typed into the forms of the two pages
PhoneNumbers == {"", "+919876543210", "+919876500000"}

OtpCodes == {"", "123456"}

Names == {"", "Asha"}

Emails == {"", "asha@example.in"}

Passwords == {"", "abc", "secret1", "secret2"}

\* len(password)
PasswordLen(password) ==
    IF password = "" THEN 0
    ELSE IF password = "abc" THEN 3
    ELSE 7

\* line 88 and line 92: a token is stored and the session is not
\* authenticated, so the run starts with the profile fetch of line 93
ReauthPending(session) ==
    session.access_token # "None" /\ ~session.authenticated

\* lines 94-101
AfterReauth(session, user_profile) ==
    IF user_profile # "None"
    THEN [session EXCEPT !.user_data = user_profile, !.authenticated = TRUE]
    ELSE [session EXCEPT !.access_token = "None", !.authenticated = FALSE]

\* lines 148-149
HasToken(result) == result.kind # "None" /\ result.access_token # "absent"

AfterLoginToken(session, result) ==
    [session EXCEPT !.access_token = result.access_token]

\* lines 154-156
AfterLoginProfileUnchecked(session, user_profile) ==
    [session EXCEPT !.user_data = user_profile, !.authenticated = TRUE]

AfterLoginProfile(session, user_profile) ==
    IF user_profile # "None"
    THEN [session EXCEPT !.user_data = user_profile, !.authenticated = TRUE]
    ELSE session

\* lines 279-281
AfterLogout(session) ==
    [session EXCEPT !.authenticated = FALSE, !.user_data = "None",
                    !.access_token = "None"]

\* lines 187-189
AfterSendOtpAlwaysAdvances(session, phone_number, result) ==
    [session EXCEPT !.signup_phone_number = phone_number, !.signup_step = 2]

AfterSendOtp(session, phone_number, result) ==
    IF result
    THEN [session EXCEPT !.signup_phone_number = phone_number, !.signup_step = 2]
    ELSE session

\* lines 222-229: the message of the validation branch taken, "" when the
\* form passes
ValidateSignup(otp_code, name, email, password, confirm_password, has_given_consent) ==
    IF otp_code = "" \/ name = "" \/ email = "" \/ password = ""
          \/ confirm_password = ""
    THEN "fill_in_all_fields"
    ELSE IF password # confirm_password THEN "passwords_dont_match"
    ELSE IF PasswordLen(password) < 6 THEN "password_too_short"
    ELSE IF ~has_given_consent THEN "agree_to_terms"
    ELSE ""

\* lines 231-234
AfterStoreSignup(session, name, email, password, has_given_consent) ==
    [session EXCEPT !.signup_name = name, !.signup_email = email,
                    !.signup_password = password,
                    !.signup_consent = has_given_consent]

\* lines 245-256
AfterVerify(session, result) ==
    IF result
    THEN [session EXCEPT !.signup_step = 1, !.signup_phone_number = "",
                         !.signup_name = "", !.signup_email = "",
                         !.signup_password = "", !.signup_consent = FALSE]
    ELSE session

Ran(handler, message) ==
    [handler |-> handler, message |-> message, before |-> session_state]

\* lines 88-102: a run of main() with a stored token and no authenticated
\* session fetches the profile before any page is shown
MainReauth ==
    /\ apc = "idle"
    /\ ReauthPending(session_state)
    /\ \E user_profile \in Profiles \cup {"None"} :
          /\ session_state' = AfterReauth(session_state, user_profile)
          /\ last_run' = Ran("main", IF user_profile # "None" THEN "re_authenticated"
                                     ELSE "session_expired")
    /\ UNCHANGED apc
    /\ UNCHANGED pageVars
    /\ UNCHANGED dashVars

\* the login and signup pages are shown: lines 88-102 had nothing to do and
\* the session is not authenticated (line 110)
AuthPagesShown ==
    /\ apc = "idle"
    /\ ~ReauthPending(session_state)
    /\ ~session_state.authenticated

\* lines 145-150: the login form is submitted; with a token in the result
\* the handler goes on to the profile fetch
LoginToken ==
    /\ AuthPagesShown
    /\ \E phone_number \in PhoneNumbers, password \in Passwords,
          result \in LoginResults :
          IF phone_number # "" /\ password # "" /\ HasToken(result)
          THEN /\ session_state' = AfterLoginToken(session_state, result)
               /\ apc' = "login_profile"
               /\ last_run' = Ran("login", "")
          ELSE /\ last_run' = Ran("login", "")
               /\ UNCHANGED <<session_state, apc>>
    /\ UNCHANGED pageVars
    /\ UNCHANGED dashVars

\* lines 153-158: the profile fetch of the login
LoginProfile ==
    /\ apc = "login_profile"
    /\ \E user_profile \in Profiles \cup {"None"} :
          /\ session_state' = AfterLoginProfile(session_state, user_profile)
          /\ last_run' = [last_run EXCEPT
                             !.message = IF user_profile # "None"
                                         THEN "login_successful" ELSE ""]
    /\ apc' = "idle"
    /\ UNCHANGED pageVars
    /\ UNCHANGED dashVars

\* lines 278-282: the logout button of the sidebar
Logout ==
    /\ apc = "idle"
    /\ session_state.authenticated
    /\ session_state' = AfterLogout(session_state)
    /\ last_run' = Ran("logout", "")
    /\ UNCHANGED apc
    /\ UNCHANGED pageVars
    /\ UNCHANGED dashVars

\* lines 178-193: the form of step 1 is submitted
SendOtp ==
    /\ AuthPagesShown
    /\ session_state.signup_step = 1
    /\ \E phone_number \in PhoneNumbers, result \in BOOLEAN :
          IF phone_number # ""
          THEN /\ session_state' = AfterSendOtp(session_state, phone_number, result)
               /\ last_run' = Ran("send_otp", IF result THEN "otp_sent"
                                              ELSE "failed_to_send_otp")
          ELSE /\ last_run' = Ran("send_otp", "")
               /\ UNCHANGED session_state
    /\ UNCHANGED apc
    /\ UNCHANGED pageVars
    /\ UNCHANGED dashVars

\* lines 195-256: the form of step 2 is submitted with "Verify OTP & Create
\* Account"
VerifyOtp ==
    /\ AuthPagesShown
    /\ session_state.signup_step = 2
    /\ \E otp_code \in OtpCodes, name \in Names, email \in Emails,
          password \in Passwords, confirm_password \in Passwords,
          has_given_consent \in BOOLEAN, result \in BOOLEAN :
          LET verdict == ValidateSignup(otp_code, name, email, password,
                                        confirm_password, has_given_consent)
              stored == AfterStoreSignup(session_state, name, email, password,
                                         has_given_consent)
          IN  IF verdict # ""
              THEN /\ last_run' = Ran("verify_otp", verdict)
                   /\ UNCHANGED session_state
              ELSE /\ session_state' = AfterVerify(stored, result)
                   /\ last_run' = Ran("verify_otp", IF result THEN "account_created"
                                                    ELSE "verification_failed")
    /\ UNCHANGED apc
    /\ UNCHANGED pageVars
    /\ UNCHANGED dashVars

\* lines 258-264: the form of step 2 is submitted with "Resend OTP"
ResendOtp ==
    /\ AuthPagesShown
    /\ session_state.signup_step = 2
    /\ \E result \in BOOLEAN :
          last_run' = Ran("resend_otp", IF result THEN "otp_resent"
                                        ELSE "failed_to_resend_otp")
    /\ UNCHANGED <<session_state, apc>>
    /\ UNCHANGED pageVars
    /\ UNCHANGED dashVars

\* a new browser session: nobody has logged in
AuthInit ==
    /\ PageAtForm
    /\ DashboardNotShown
    /\ session_state = FreshSession
    /\ apc = "idle"
    /\ last_run = NoRun(FreshSession)

AuthNext ==
    \/ MainReauth
    \/ LoginToken
    \/ LoginProfile
    \/ Logout
    \/ SendOtp
    \/ VerifyOtp
    \/ ResendOtp

AuthSpec == AuthInit /\ [][AuthNext]_vars

----------------------------------------------------------------------------
(* Vocabulary of the properties *)

Range(s) == {s[p] : p \in DOMAIN s}

IsChunkCall(c) == c.op = "upload_file_chunk"

IsFinalizeCall(c) == c.op = "finalize_record_upload"

ChunkCallsOf(uuid) ==
    {p \in DOMAIN calls : IsChunkCall(calls[p]) /\ calls[p].upload_uuid = uuid}

FinalizeCallsOf(uuid) ==
    {p \in DOMAIN calls : IsFinalizeCall(calls[p]) /\ calls[p].upload_uuid = uuid}

\* the identifiers drawn in the running submission, with their files
IssuedNow == {e \in Range(issued) : e.sub = submissions}

\* ceil(size / chunk_size), by its definition
Ceil(size) ==
    CHOOSE n \in 0..(size \div chunk_size + 1) :
        n * chunk_size >= size /\ (n - 1) * chunk_size < size

Max(a, b) == IF a >= b THEN a ELSE b

\* every chunk the file needs was answered with success
UploadedFully(e) ==
    \A k \in 0..(Ceil(uploaded_files[e.file].size) - 1) :
        \E p \in ChunkCallsOf(e.uuid) :
            calls[p].chunk_index = k /\ calls[p].result

\* some chunk upload of the file was answered with failure
UploadFailed(e) == \E p \in ChunkCallsOf(e.uuid) : ~calls[p].result

FinalizedOk(e) == \E p \in FinalizeCallsOf(e.uuid) : calls[p].result

\* the handler has run to its end, normally or by an exception
BatchEnded == pc \in {"done", "crashed"}

----------------------------------------------------------------------------
(* Properties *)

\* C1: finalize_record_upload is never called with the identifier of a file
\* for which some upload_file_chunk call reported failure.
C1_NoFinalizeAfterFailedChunk ==
    \A p \in DOMAIN calls : \A q \in DOMAIN calls :
        (/\ IsFinalizeCall(calls[p])
         /\ IsChunkCall(calls[q])
         /\ calls[q].upload_uuid = calls[p].upload_uuid) => calls[q].result

\* a submission in which one file lost a chunk and another file was finalized
C1_Witness ==
    /\ \E q \in DOMAIN calls : IsChunkCall(calls[q]) /\ ~calls[q].result
    /\ \E p \in DOMAIN calls : IsFinalizeCall(calls[p])

\* C2: when chunk k is the first chunk of a file to fail, exactly k+1
\* upload_file_chunk calls are made for the file, none with an index above k,
\* the k calls before it succeeded, and the file is reported failed at chunk
\* k (the warning names chunk k+1) and is not handed to the finalize loop.
C2_StopsAtFirstFailedChunk ==
    \A q \in DOMAIN calls :
        (IsChunkCall(calls[q]) /\ ~calls[q].result) =>
            LET c == calls[q]
                mine == ChunkCallsOf(c.upload_uuid)
            IN  /\ Cardinality(mine) = c.chunk_index + 1
                /\ \A p \in mine : calls[p].chunk_index <= c.chunk_index
                /\ \A p \in mine : p # q => calls[p].result
                /\ Msg("warning", "chunk_failed", c.filename, c.chunk_index + 1)
                       \in Range(messages)
                /\ Msg("error", "file_upload_failed", c.filename, 0) \in Range(messages)
                /\ \A j \in DOMAIN uploaded_files_info :
                       uploaded_files_info[j].uuid # c.upload_uuid

\* one file of three chunks whose chunk 1 failed: the run is over after two
\* transport calls
C2_Witness ==
    /\ pc = "done"
    /\ Len(uploaded_files) = 1
    /\ Len(calls) = 2
    /\ calls[2].chunk_index = 1
    /\ calls[2].total_chunks = 3
    /\ ~calls[2].result

\* C3: every finalize_record_upload call comes after a successful
\* upload_file_chunk call for each index 0..total_chunks-1 made with the
\* same filename, upload_uuid and total_chunks, and no chunk call of that
\* identifier carried another filename or total_chunks.
C3_FinalizeFollowsAllChunks ==
    \A p \in DOMAIN calls :
        IsFinalizeCall(calls[p]) =>
            LET f == calls[p]
            IN  /\ \A k \in 0..(f.total_chunks - 1) :
                       \E q \in 1..(p - 1) :
                           /\ IsChunkCall(calls[q])
                           /\ calls[q].upload_uuid = f.upload_uuid
                           /\ calls[q].chunk_index = k
                           /\ calls[q].result
                           /\ calls[q].filename = f.filename
                           /\ calls[q].total_chunks = f.total_chunks
                /\ \A q \in ChunkCallsOf(f.upload_uuid) :
                       /\ calls[q].filename = f.filename
                       /\ calls[q].total_chunks = f.total_chunks

\* a file of three chunks was finalized
C3_Witness ==
    \E p \in DOMAIN calls : IsFinalizeCall(calls[p]) /\ calls[p].total_chunks = 3

\* C4: when the handler has ended, uploaded_files_count is the number of
\* files that uploaded every chunk and whose finalize call succeeded, and it
\* lies in 0..len(uploaded_files).
C4_CountIsSucceededFiles ==
    BatchEnded =>
        /\ uploaded_files_count =
               Cardinality({e \in IssuedNow : UploadedFully(e) /\ FinalizedOk(e)})
        /\ uploaded_files_count >= 0
        /\ uploaded_files_count <= Len(uploaded_files)

\* C5: when the handler has ended, every file that uploaded every chunk has
\* had exactly one finalize call, whatever the earlier finalize calls
\* returned, and the count is the number of such files less the number of
\* failed finalize calls.
C5_FinalizeFailureIsLocal ==
    BatchEnded =>
        /\ \A e \in IssuedNow :
               UploadedFully(e) => Cardinality(FinalizeCallsOf(e.uuid)) = 1
        /\ uploaded_files_count =
               Cardinality({e \in IssuedNow : UploadedFully(e)})
               - Cardinality({p \in DOMAIN calls :
                                 IsFinalizeCall(calls[p]) /\ ~calls[p].result})

\* C6: when the handler has ended after some chunk upload failed, every
\* file of the selection had its session run from chunk 0, and every file
\* that uploaded every chunk was finalized.
C6_ChunkFailureDoesNotAbortBatch ==
    (BatchEnded /\ \E e \in IssuedNow : UploadFailed(e)) =>
        /\ \A f \in DOMAIN uploaded_files : \E e \in IssuedNow : e.file = f
        /\ \A e \in IssuedNow :
               uploaded_files[e.file].size > 0 =>
                   \E p \in ChunkCallsOf(e.uuid) : calls[p].chunk_index = 0
        /\ \A e \in IssuedNow :
               (UploadedFully(e) /\ ~UploadFailed(e)) => FinalizeCallsOf(e.uuid) # {}

\* C7: the chunk count of a file is max(1, ceil(size / chunk_size)), and
\* every finalize call is for a file of which at least one chunk upload
\* succeeded.
C7_AtLeastOneChunk ==
    /\ (pc \notin {"form", "rejected", "stopped"} /\ IssuedNow # {}) =>
           total_chunks = Max(1, Ceil(file_size))
    /\ \A p \in DOMAIN calls :
           IsFinalizeCall(calls[p]) =>
               /\ calls[p].total_chunks >= 1
               /\ \E q \in ChunkCallsOf(calls[p].upload_uuid) : calls[q].result

\* the sum of the lengths of chunks 0..n-1 of a file of the given size
RECURSIVE SumOfChunkLengths(_, _)
SumOfChunkLengths(size, n) ==
    IF n <= 0 THEN 0
    ELSE SumOfChunkLengths(size, n - 1)
         + (ChunkSlice(size, n - 1).hi - ChunkSlice(size, n - 1).lo)

\* C8: the byte ranges of chunks 0..total_chunks-1 of a file start at byte 0,
\* each begins where the one before ended, all but the last are chunk_size
\* long, the last is at most chunk_size long, and the lengths sum to the
\* file's size; the ranges sent to upload_file_chunk are these ranges.
C8_ChunksTileTheFile ==
    /\ \A f \in Range(uploaded_files) :
           LET n == TotalChunks(f.size)
           IN  /\ n > 0 => ChunkSlice(f.size, 0).lo = 0
               /\ \A k \in 0..(n - 2) :
                      /\ ChunkSlice(f.size, k).hi = ChunkSlice(f.size, k + 1).lo
                      /\ ChunkSlice(f.size, k).hi - ChunkSlice(f.size, k).lo = chunk_size
               /\ n > 0 =>
                      /\ ChunkSlice(f.size, n - 1).hi = f.size
                      /\ ChunkSlice(f.size, n - 1).hi - ChunkSlice(f.size, n - 1).lo
                             \in 0..chunk_size
               /\ SumOfChunkLengths(f.size, n) = f.size
    /\ \A p \in DOMAIN calls :
           IsChunkCall(calls[p]) =>
               LET c == calls[p]
               IN  /\ c.lo = IF c.chunk_index = 0 THEN 0 ELSE calls[p - 1].hi
                   /\ c.chunk_index < c.total_chunks - 1 => c.hi - c.lo = chunk_size
                   /\ c.chunk_index = c.total_chunks - 1 =>
                          c.hi = uploaded_files[c.pos].size

\* a file of several chunks whose last chunk is shorter than chunk_size was
\* sent whole
C8_Witness ==
    \E p \in DOMAIN calls :
        /\ IsChunkCall(calls[p])
        /\ calls[p].chunk_index = calls[p].total_chunks - 1
        /\ calls[p].chunk_index >= 2
        /\ calls[p].hi - calls[p].lo \in 1..(chunk_size - 1)
        /\ calls[p].result

\* C9: the upload_file_chunk calls of a file are made in the order 0, 1, 2,
\* ...: the call for index 0 is the first call with its identifier, the call
\* for an index above 0 comes directly after the call for the index before,
\* which returned success, and all carry the same total_chunks, which no
\* index reaches.
C9_ChunksInOrderOneAtATime ==
    \A p \in DOMAIN calls :
        IsChunkCall(calls[p]) =>
            LET c == calls[p]
            IN  /\ c.chunk_index \in 0..(c.total_chunks - 1)
                /\ c.chunk_index = 0 =>
                       \A q \in 1..(p - 1) : calls[q].upload_uuid # c.upload_uuid
                /\ c.chunk_index > 0 =>
                       /\ p > 1
                       /\ IsChunkCall(calls[p - 1])
                       /\ calls[p - 1].upload_uuid = c.upload_uuid
                       /\ calls[p - 1].chunk_index = c.chunk_index - 1
                       /\ calls[p - 1].result
                       /\ calls[p - 1].total_chunks = c.total_chunks

\* the three chunks of a file were sent one after the other
C9_Witness ==
    \E p \in DOMAIN calls :
        /\ IsChunkCall(calls[p])
        /\ calls[p].chunk_index = 2
        /\ p >= 4

\* C10: every file whose session has begun has exactly one identifier, drawn
\* before its first chunk is sent; every upload_file_chunk call of the file
\* carries it; and no identifier is drawn for two files, of the same or of
\* different submissions.
C10_OneIdentifierPerFile ==
    /\ \A a \in DOMAIN issued : \A b \in DOMAIN issued :
           a # b =>
               /\ issued[a].uuid # issued[b].uuid
               /\ <<issued[a].sub, issued[a].file>> # <<issued[b].sub, issued[b].file>>
    /\ \A p \in DOMAIN calls :
           IsChunkCall(calls[p]) =>
               \E e \in IssuedNow :
                   e.file = calls[p].pos /\ e.uuid = calls[p].upload_uuid
    /\ pc = "chunk" =>
           [sub |-> submissions, file |-> fileIdx, uuid |-> file_upload_uuid]
               \in Range(issued)

\* the second submission is sending the chunks of its second file
C10_Witness ==
    /\ Len(issued) >= 4
    /\ submissions = 2
    /\ \E p \in DOMAIN calls : IsChunkCall(calls[p]) /\ calls[p].pos = 2

----------------------------------------------------------------------------
(* What C4, C5 and C6 say, on the runs that reach the end of the handler    *)
(* without the exception of FinalizeRaises                                  *)

\* the count on a run that reached line 638
Lemma_CountOnCompletedRuns ==
    pc = "done" =>
        uploaded_files_count =
            Cardinality({e \in IssuedNow : UploadedFully(e) /\ FinalizedOk(e)})

\* the count never leaves 0..len(uploaded_files)
Lemma_CountInRange ==
    uploaded_files_count >= 0 /\ uploaded_files_count <= Len(uploaded_files)

\* one finalize call per uploaded file on a run that reached line 638
Lemma_OneFinalizePerUploadedFile ==
    pc = "done" =>
        \A e \in IssuedNow :
            UploadedFully(e) => Cardinality(FinalizeCallsOf(e.uuid)) = 1

\* every file has had its session when the file loop is over
Lemma_EveryFileHasItsSession ==
    pc \in {"finalize", "done", "crashed"} =>
        \A f \in DOMAIN uploaded_files : \E e \in IssuedNow : e.file = f

----------------------------------------------------------------------------
(* Properties of the media type, the order of the files, validation and    *)
(* the end of the run                                                       *)

\* the position in the selection of the file an identifier was drawn for
FileOfUuid(uuid) == (CHOOSE e \in IssuedNow : e.uuid = uuid).file

\* C11: the media_type of every finalize call is audio when the declared
\* type contains "audio", else video when it contains "video", else image
\* when it contains "image" or "pdf", else text; a missing type counts as
\* application/octet-stream and gives text; no other value occurs.
C11_MediaTypePrecedence ==
    \A p \in DOMAIN calls :
        IsFinalizeCall(calls[p]) =>
            LET declared == uploaded_files[FileOfUuid(calls[p].upload_uuid)].type
                K == Keywords(IF declared \in {"None", ""}
                              THEN "application/octet-stream" ELSE declared)
                tag == calls[p].media_type
            IN  /\ tag \in {"audio", "video", "image", "text"}
                /\ "audio" \in K => tag = "audio"
                /\ ("audio" \notin K /\ "video" \in K) => tag = "video"
                /\ ("audio" \notin K /\ "video" \notin K
                        /\ ("image" \in K \/ "pdf" \in K)) => tag = "image"
                /\ K = {} => tag = "text"
                /\ declared \in {"None", ""} => tag = "text"

\* a file whose declared type contains both "audio" and "video" was
\* finalized as audio
C11_Witness ==
    \E p \in DOMAIN calls :
        /\ IsFinalizeCall(calls[p])
        /\ uploaded_files[FileOfUuid(calls[p].upload_uuid)].type
               = "audio/x-video-soundtrack"
        /\ calls[p].media_type = "audio"

\* the filenames of a sequence of calls or messages, in order
Filenames(seq) == [k \in DOMAIN seq |-> seq[k].filename]

FailedChunkCall(c) == IsChunkCall(c) /\ ~c.result

FailedFinalizeCall(c) == IsFinalizeCall(c) /\ ~c.result

UploadFailedMsg(m) == m.text = "file_upload_failed"

FinalizeFailedMsg(m) == m.text = "finalize_failed"

\* C12: identifiers are drawn, chunks sent, files listed for finalizing and
\* finalize calls made in the order of the selection, and the per-file
\* failure messages come in that order too, whichever files failed.
C12_SelectionOrder ==
    /\ \A a \in DOMAIN issued : \A b \in DOMAIN issued :
           (a < b /\ issued[a].sub = submissions /\ issued[b].sub = submissions)
               => issued[a].file < issued[b].file
    /\ \A p \in DOMAIN calls : \A q \in DOMAIN calls :
           (p < q /\ IsChunkCall(calls[p]) /\ IsChunkCall(calls[q]))
               => calls[p].pos <= calls[q].pos
    /\ \A p \in DOMAIN calls : \A q \in DOMAIN calls :
           (p < q /\ IsFinalizeCall(calls[p]) /\ IsFinalizeCall(calls[q]))
               => FileOfUuid(calls[p].upload_uuid) < FileOfUuid(calls[q].upload_uuid)
    /\ \A a \in DOMAIN uploaded_files_info : \A b \in DOMAIN uploaded_files_info :
           a < b => FileOfUuid(uploaded_files_info[a].uuid)
                        < FileOfUuid(uploaded_files_info[b].uuid)
    /\ Filenames(SelectSeq(messages, UploadFailedMsg))
           = Filenames(SelectSeq(calls, FailedChunkCall))
    /\ Filenames(SelectSeq(messages, FinalizeFailedMsg))
           = Filenames(SelectSeq(calls, FailedFinalizeCall))

\* the first and the third file were finalized, in that order, and the
\* second file failed in between
C12_Witness ==
    /\ \E q \in DOMAIN calls : FailedChunkCall(calls[q]) /\ calls[q].pos = 2
    /\ \E p \in DOMAIN calls : \E q \in DOMAIN calls :
           /\ p < q
           /\ IsFinalizeCall(calls[p]) /\ FileOfUuid(calls[p].upload_uuid) = 1
           /\ IsFinalizeCall(calls[q]) /\ FileOfUuid(calls[q].upload_uuid) = 3

\* C13: a submission that passed validation with no file selected makes no
\* upload_file_chunk and no finalize call, ends with no file attempted and
\* a count of 0, and is not reported as a failure.
C13_ZeroFilesIsValidOutcome ==
    (pc = "done" /\ uploaded_files = <<>>) =>
        /\ calls = <<>>
        /\ IssuedNow = {}
        /\ uploaded_files_count = 0
        /\ \A m \in Range(messages) : m.level # "error"

\* what C13 says of the calls and of the count, without the report
Lemma_ZeroFilesMakesNoCall ==
    (pc = "done" /\ uploaded_files = <<>>) =>
        /\ calls = <<>>
        /\ IssuedNow = {}
        /\ uploaded_files_count = 0

\* a required field of the submitted form is empty, no language is
\* selected, or the description or the story has fewer than 32 characters
FormIsInvalid ==
    \/ form.title = ""
    \/ form.description_len = 0
    \/ form.content_len = 0
    \/ form.language = "-- Select a language --"
    \/ form.description_len < 32
    \/ form.content_len < 32

\* C14: a submitted form that is invalid is rejected before the pipeline
\* starts: no identifier is drawn, no upload_file_chunk and no
\* finalize_record_upload call is made.
C14_ValidationBeforeTransport ==
    (pc # "form" /\ FormIsInvalid) =>
        /\ pc = "rejected"
        /\ calls = <<>>
        /\ IssuedNow = {}

\* a form whose description has 31 characters was rejected with a file
\* selected
C14_Witness ==
    /\ pc = "rejected"
    /\ form.description_len = 31
    /\ form.title # ""
    /\ form.content_len = 32
    /\ form.language = "Telugu"
    /\ uploaded_files # <<>>

\* C15: within one submission no two upload_file_chunk calls are for the
\* same file and chunk index, and no two finalize_record_upload calls are
\* for the same file, whatever the calls returned.
C15_NoRetry ==
    \A p \in DOMAIN calls : \A q \in DOMAIN calls :
        p < q =>
            /\ (IsChunkCall(calls[p]) /\ IsChunkCall(calls[q])) =>
                   \/ calls[p].pos # calls[q].pos
                   \/ calls[p].chunk_index # calls[q].chunk_index
            /\ (IsFinalizeCall(calls[p]) /\ IsFinalizeCall(calls[q])) =>
                   /\ calls[p].upload_uuid # calls[q].upload_uuid
                   /\ FileOfUuid(calls[p].upload_uuid) # FileOfUuid(calls[q].upload_uuid)

\* a run ended in which a chunk upload of the first file failed, the
\* chunks of the second file were sent, and its finalize call failed
C15_Witness ==
    /\ pc = "done"
    /\ \E p \in DOMAIN calls : \E q \in DOMAIN calls :
           /\ p < q
           /\ IsChunkCall(calls[p]) /\ ~calls[p].result
           /\ IsChunkCall(calls[q])
    /\ \E p \in DOMAIN calls : IsFinalizeCall(calls[p]) /\ ~calls[p].result

\* the file at position f of the selection has a terminal outcome: a chunk
\* upload of it failed, or its finalize call was made
HasTerminalOutcome(f) ==
    \E e \in IssuedNow :
        /\ e.file = f
        /\ UploadFailed(e) \/ FinalizeCallsOf(e.uuid) # {}

\* C16: a batch that has started never ends by an unhandled exception, and
\* when it has ended every selected file has a terminal outcome and a result
\* is reported.
C16_BatchRunsToCompletion ==
    /\ pc # "crashed"
    /\ \A m \in Range(messages) : m.level # "exception"
    /\ pc = "done" =>
           /\ \A f \in DOMAIN uploaded_files : HasTerminalOutcome(f)
           /\ messages # <<>>

\* with latitude and longitude empty or numeric the batch does run to
\* completion
Lemma_CompletesWithBoundCoordinates ==
    (latitude # "unbound" /\ longitude # "unbound") =>
        /\ pc # "crashed"
        /\ pc = "done" =>
               /\ \A f \in DOMAIN uploaded_files : HasTerminalOutcome(f)
               /\ messages # <<>>

(* The outcome of a batch as a function of the selection, the coordinates   *)
(* and the transport responses                                              *)

\* the responses the transport gave in this run, by file and chunk index and
\* by file; a call that was not made has no response, TRUE stands in for it
ObservedChunkResponses ==
    [f \in DOMAIN uploaded_files |->
        [k \in 0..(TotalChunks(uploaded_files[f].size) - 1) |->
            \A p \in DOMAIN calls :
                (IsChunkCall(calls[p]) /\ calls[p].pos = f /\ calls[p].chunk_index = k)
                    => calls[p].result]]

ObservedFinalizeResponses ==
    [f \in DOMAIN uploaded_files |->
        \A p \in DOMAIN calls :
            (IsFinalizeCall(calls[p]) /\ FileOfUuid(calls[p].upload_uuid) = f)
                => calls[p].result]

\* a call without its identifier, with the position of its file
NormalisedCall(c, f) == [c EXCEPT !.upload_uuid = 0, !.pos = f]

NormalisedCalls ==
    [p \in DOMAIN calls |->
        NormalisedCall(calls[p],
                       IF IsChunkCall(calls[p]) THEN calls[p].pos
                       ELSE FileOfUuid(calls[p].upload_uuid))]

FailedIndexes(files, rc, f) ==
    {k \in 0..(TotalChunks(files[f].size) - 1) : ~rc[f][k]}

FirstFailedIndex(files, rc, f) ==
    CHOOSE k \in FailedIndexes(files, rc, f) :
        \A j \in FailedIndexes(files, rc, f) : k <= j

ExpectedUploaded(files, rc) == {f \in DOMAIN files : FailedIndexes(files, rc, f) = {}}

\* the number of chunk calls of file f: up to the first failure
ExpectedSent(files, rc, f) ==
    IF FailedIndexes(files, rc, f) = {} THEN TotalChunks(files[f].size)
    ELSE FirstFailedIndex(files, rc, f) + 1

ExpectedRaises(files, lat, lon, rc) ==
    /\ lat = "unbound" \/ lon = "unbound"
    /\ ExpectedUploaded(files, rc) # {}

RECURSIVE ExpectedChunkCalls(_, _, _)
ExpectedChunkCalls(files, rc, f) ==
    IF f > Len(files) THEN <<>>
    ELSE [n \in 1..ExpectedSent(files, rc, f) |->
             NormalisedCall(ChunkCallRecord(f, files[f], n - 1,
                                            TotalChunks(files[f].size), 0,
                                            rc[f][n - 1]), f)]
         \o ExpectedChunkCalls(files, rc, f + 1)

RECURSIVE ExpectedFinalizeCalls(_, _, _, _)
ExpectedFinalizeCalls(files, rc, rf, f) ==
    IF f > Len(files) THEN <<>>
    ELSE (IF f \in ExpectedUploaded(files, rc)
          THEN <<NormalisedCall(
                    FinalizeCallRecord(FileInfo(files[f], 0, TotalChunks(files[f].size)),
                                       rf[f]), f)>>
          ELSE <<>>)
         \o ExpectedFinalizeCalls(files, rc, rf, f + 1)

ExpectedCalls(files, lat, lon, rc, rf) ==
    ExpectedChunkCalls(files, rc, 1)
        \o (IF ExpectedRaises(files, lat, lon, rc) THEN <<>>
            ELSE ExpectedFinalizeCalls(files, rc, rf, 1))

ExpectedCount(files, lat, lon, rc, rf) ==
    IF ExpectedRaises(files, lat, lon, rc)
    THEN Cardinality(ExpectedUploaded(files, rc))
    ELSE Cardinality({f \in ExpectedUploaded(files, rc) : rf[f]})

RECURSIVE ExpectedUploadMessages(_, _, _)
ExpectedUploadMessages(files, rc, f) ==
    IF f > Len(files) THEN <<>>
    ELSE (IF f \in ExpectedUploaded(files, rc) THEN <<>>
          ELSE <<Msg("warning", "chunk_failed", files[f].name,
                     FirstFailedIndex(files, rc, f) + 1),
                 Msg("error", "file_upload_failed", files[f].name, 0)>>)
         \o ExpectedUploadMessages(files, rc, f + 1)

RECURSIVE ExpectedFinalizeMessages(_, _, _, _)
ExpectedFinalizeMessages(files, rc, rf, f) ==
    IF f > Len(files) THEN <<>>
    ELSE (IF f \in ExpectedUploaded(files, rc) /\ ~rf[f]
          THEN <<Msg("warning", "finalize_failed", files[f].name, 0)>>
          ELSE <<>>)
         \o ExpectedFinalizeMessages(files, rc, rf, f + 1)

ExpectedMessages(files, lat, lon, rc, rf) ==
    ExpectedUploadMessages(files, rc, 1)
        \o (IF ExpectedUploaded(files, rc) = {} THEN <<NoMediaMsg>>
            ELSE IF ExpectedRaises(files, lat, lon, rc)
            THEN <<Msg("exception", "UnboundLocalError", "", 0)>>
            ELSE ExpectedFinalizeMessages(files, rc, rf, 1)
                 \o (IF ExpectedCount(files, lat, lon, rc, rf) > 0
                     THEN <<Msg("success", "files_uploaded", "",
                                ExpectedCount(files, lat, lon, rc, rf))>>
                     ELSE <<Msg("error", "failed_to_upload_story", "", 0)>>))

\* C17: when a batch has ended, its transport calls (without the fresh
\* identifiers), its count of succeeded files, its per-file and final
\* messages and the way it ended are the values of functions of the
\* selection, the coordinates and the transport responses alone, so two runs
\* that agree on these agree on the outcome, whatever ran before.
C17_OutcomeIsFunctionOfInputs ==
    BatchEnded =>
        LET rc == ObservedChunkResponses
            rf == ObservedFinalizeResponses
        IN  /\ NormalisedCalls = ExpectedCalls(uploaded_files, latitude, longitude, rc, rf)
            /\ uploaded_files_count =
                   ExpectedCount(uploaded_files, latitude, longitude, rc, rf)
            /\ messages = ExpectedMessages(uploaded_files, latitude, longitude, rc, rf)
            /\ pc = IF ExpectedRaises(uploaded_files, latitude, longitude, rc)
                    THEN "crashed" ELSE "done"

\* the second submission has ended after a first one; a chunk of its first
\* file failed and its second file succeeded
C17_Witness ==
    /\ submissions = 2
    /\ pc = "done"
    /\ Len(uploaded_files) = 2
    /\ uploaded_files_count = 1
    /\ Len(issued) >= 3
    /\ \E p \in DOMAIN calls : IsChunkCall(calls[p]) /\ ~calls[p].result

(* The dashboard *)

\* the list is in descending order of timestamp, an entry without timestamp
\* counting as earlier than every timestamp
IsDescendingMissingLast(list) ==
    \A a \in DOMAIN list : \A b \in DOMAIN list :
        a < b =>
            \/ list[b].timestamp = "None"
            \/ /\ list[a].timestamp # "None"
               /\ SortKey(list[a]).t >= SortKey(list[b]).t

\* the entries of the responses so far, in the order of the calls
RECURSIVE Concatenated(_)
Concatenated(fs) ==
    IF fs = <<>> THEN <<>>
    ELSE Concatenated(SubSeq(fs, 1, Len(fs) - 1))
         \o (IF fs[Len(fs)].response.kind = "None" THEN <<>>
             ELSE fs[Len(fs)].response.contributions)

\* C18: once the four responses are in and hold an entry, the sort has
\* completed without error and the list shown holds the entries of the
\* responses in descending order of timestamp, the entries without timestamp
\* last.
C18_SortedDescendingMissingLast ==
    (Len(fetches) = Len(media_types) /\ Concatenated(fetches) # <<>>) =>
        /\ dpc = "shown"
        /\ IsDescendingMissingLast(all_recent_contributions)
        /\ Len(all_recent_contributions) = Len(Concatenated(fetches))
        /\ Range(all_recent_contributions) = Range(Concatenated(fetches))

\* when the timestamps all carry an offset, all carry none or are missing
\* with offset-free ones, the sort completes and the order is as claimed
Lemma_SortsWhenKeysAreOfOneKind ==
    (Len(fetches) = Len(media_types) /\ Concatenated(fetches) # <<>>
        /\ ~SortRaises(Concatenated(fetches))) =>
        /\ dpc = "shown"
        /\ IsDescendingMissingLast(all_recent_contributions)
        /\ Len(all_recent_contributions) = Len(Concatenated(fetches))
        /\ Range(all_recent_contributions) = Range(Concatenated(fetches))

\* the section has ended: nothing to show, the list shown, or an exception
DashEnded == dpc \in {"no_stories", "shown", "crashed"}

\* C19: the calls are for text, audio, image and video in this order, one
\* each, and none without a user id; while the calls are made the list is
\* the concatenation, in call order, of the contributions of the responses,
\* a None response and an empty list adding nothing; at the end the list
\* holds exactly these entries, and when there is none the list is empty and
\* the section ends with the no-stories hint, not with an error.
C19_OneFetchPerTypeInOrder ==
    /\ Len(fetches) <= 4
    /\ \A p \in DOMAIN fetches :
           fetches[p].media_type = <<"text", "audio", "image", "video">>[p]
    /\ dpc \in {"idle", "login_hint"} => fetches = <<>>
    /\ dpc = "fetch" =>
           /\ Len(fetches) < 4
           /\ all_recent_contributions = Concatenated(fetches)
    /\ DashEnded =>
           /\ Len(fetches) = 4
           /\ Len(all_recent_contributions) = Len(Concatenated(fetches))
           /\ Range(all_recent_contributions) = Range(Concatenated(fetches))
           /\ (Concatenated(fetches) = <<>>) <=> (dpc = "no_stories")
    /\ dpc = "crashed" => all_recent_contributions = Concatenated(fetches)

\* the four calls were made; one returned None, one an empty list, two an
\* entry each, and the list shown holds the two entries
C19_Witness ==
    /\ dpc = "shown"
    /\ Len(all_recent_contributions) = 2
    /\ \E p \in DOMAIN fetches : fetches[p].response.kind = "None"
    /\ \E p \in DOMAIN fetches :
           /\ fetches[p].response.kind = "dict"
           /\ fetches[p].response.contributions = <<>>

\* all four responses were None or empty, of both kinds
C19_WitnessNoStories ==
    /\ dpc = "no_stories"
    /\ all_recent_contributions = <<>>
    /\ \E p \in DOMAIN fetches : fetches[p].response.kind = "None"
    /\ \E p \in DOMAIN fetches : fetches[p].response.kind = "dict"

----------------------------------------------------------------------------
(* The two phases of the pipeline *)

\* the upload session of the file at position f has ended: a chunk upload
\* of it failed, or every chunk it needs was answered with success
SessionEnded(f) ==
    \E e \in IssuedNow : e.file = f /\ (UploadFailed(e) \/ UploadedFully(e))

\* C20: no upload_file_chunk call comes after a finalize_record_upload call
\* of the same submission, and from the moment the finalize loop is entered
\* the upload session of every selected file has ended.
C20_UploadsPrecedeFinalizes ==
    /\ \A p \in DOMAIN calls : \A q \in DOMAIN calls :
           (p < q /\ IsFinalizeCall(calls[p])) => ~IsChunkCall(calls[q])
    /\ (pc = "finalize" \/ \E p \in DOMAIN calls : IsFinalizeCall(calls[p])) =>
           \A f \in DOMAIN uploaded_files : SessionEnded(f)

\* two files were selected, the first one uploaded, the second one was sent
\* in more than one chunk, and a finalize call has been made
C20_Witness ==
    /\ Len(uploaded_files) = 2
    /\ \E p \in DOMAIN calls : IsFinalizeCall(calls[p])
    /\ \E e \in IssuedNow : e.file = 1 /\ UploadedFully(e)
    /\ Cardinality({p \in DOMAIN calls : IsChunkCall(calls[p]) /\ calls[p].pos = 2}) >= 2

----------------------------------------------------------------------------
(* The session *)

\* C21: an authenticated session has an access token and user data; a run
\* of main() whose profile fetch for the stored token failed leaves no token
\* and no authenticated session; and a logout leaves the session not
\* authenticated, without user data and without token.
C21_AuthenticatedHasTokenAndUser ==
    /\ session_state.authenticated =>
           /\ session_state.access_token \in Tokens
           /\ session_state.user_data \in Profiles
    /\ (last_run.handler = "main" /\ last_run.message = "session_expired") =>
           /\ session_state.access_token = "None"
           /\ ~session_state.authenticated
    /\ last_run.handler = "logout" =>
           /\ ~session_state.authenticated
           /\ session_state.user_data = "None"
           /\ session_state.access_token = "None"

\* a login whose profile fetch failed left its token stored, and the next
\* run of main() cleared it when the fetch failed again
C21_Witness ==
    /\ last_run.handler = "main"
    /\ last_run.message = "session_expired"
    /\ last_run.before.access_token \in Tokens
    /\ ~last_run.before.authenticated
    /\ session_state.access_token = "None"

\* an authenticated user has logged out
C21_WitnessLogout ==
    /\ last_run.handler = "logout"
    /\ last_run.before.authenticated
    /\ last_run.before.access_token \in Tokens

\* the runs of the signup page that the claim says change nothing
SignupRunChangesNothing ==
    \/ last_run.handler = "resend_otp"
    \/ last_run.message \in {"failed_to_send_otp", "fill_in_all_fields",
                             "passwords_dont_match", "password_too_short",
                             "agree_to_terms", "verification_failed"}

\* C22: signup_step is 1 or 2; a run that took the step from 1 to 2 was a
\* send of the OTP that succeeded, for a non-empty phone number, which is the
\* one stored; a failed send, a failed validation, a failed verification and
\* a resend leave the step and the stored phone number as they were; a
\* successful verification happens at step 2 and leaves step 1 with the
\* phone number, name, email, password and consent cleared.
C22_SignupTwoSteps ==
    /\ session_state.signup_step \in {1, 2}
    /\ (session_state.signup_step = 2 /\ last_run.before.signup_step # 2) =>
           /\ last_run.before.signup_step = 1
           /\ last_run.handler = "send_otp"
           /\ last_run.message = "otp_sent"
    /\ session_state.signup_step = 2 =>
           session_state.signup_phone_number \in PhoneNumbers \ {""}
    /\ SignupRunChangesNothing =>
           /\ session_state.signup_step = last_run.before.signup_step
           /\ session_state.signup_phone_number = last_run.before.signup_phone_number
    /\ last_run.message = "account_created" =>
           /\ last_run.before.signup_step = 2
           /\ session_state.signup_step = 1
           /\ session_state.signup_phone_number = ""
           /\ session_state.signup_name = ""
           /\ session_state.signup_email = ""
           /\ session_state.signup_password = ""
           /\ ~session_state.signup_consent

\* an account was created at step 2 after an earlier verification had
\* failed and left the name stored
C22_Witness ==
    /\ last_run.message = "account_created"
    /\ last_run.before.signup_step = 2
    /\ last_run.before.signup_name # ""
    /\ last_run.before.signup_phone_number # ""
    /\ session_state.signup_step = 1

\* a send of the OTP failed at step 1
C22_WitnessFailedSend ==
    /\ last_run.message = "failed_to_send_otp"
    /\ session_state.signup_step = 1

====
